---- MODULE Spec2Model ----
(***************************************************************************)
(* BizPilot lead pipeline: rule-based intent classification                *)
(* (rag_pipeline.py) and message generation with confidence scoring and    *)
(* fallback (message_generator.py).                                        *)
(*                                                                         *)
(* Text is a sequence of one-character strings, so that lower(), len(),    *)
(* substring search, split, strip and replace are computed, not assumed.   *)
(* Scores and confidences are integers in hundredths (0.85 is 85).         *)
(***************************************************************************)
EXTENDS Integers, Sequences, FiniteSets, TLC

VARIABLES
    query,          \* the query text handed to _classify_with_rules
    contexts,       \* the retrieved contexts of the call
    ctx_given,      \* whether the caller of generate_message passed contexts
    lead,           \* lead_data: name, company, source_metadata message/subject
    index,          \* the vector store collection, as seen from the current query
    intent,         \* the intent handed to generate_message
    backend,        \* how the generative backend answers this call
    classification, \* << >> before the classification call, << result >> after it
    message,        \* << >> before generate_message, << result >> after it
    raised,         \* the exception that escaped the call, None when it returned
    prompt_ctx,     \* doc ids whose content was put in the prompt's context block
    model_logs,     \* ModelLog rows written by _log_model_call
    mode,           \* how process_new_lead is invoked: by a Celery worker or called directly
    lead_exists,    \* whether the leads table holds a row for lead_id
    auto_send,      \* os.getenv('AUTO_SEND_ENABLED') == 'true'
    flaky,          \* the collaborator that may fail during this run, None for none
    task,           \* the process_new_lead task: state, request.retries, countdown
    attempts,       \* number of times the body of process_new_lead has run
    db_lead,        \* committed classification columns of the lead row
    db_messages,    \* committed rows of the messages table
    db_interactions,\* committed rows of the interactions table
    send_queue,     \* message ids handed to send_message.delay
    last,           \* what the last attempt did: fault hit, rollback, commit
    kb,             \* knowledge_base rows: id -> active flag, persisted embedding_id (0: null)
    deleted,        \* ids whose index entry a delete_document call removed
    op,             \* the knowledge-base operation that ran last, with its arguments
    index_meta,     \* metadata stored in the collection: id -> title, doc_type, ...
    run,            \* the index_knowledge_base call in progress: position, docs_to_index
    embed_model,    \* model_name of the EmbeddingService of the pipeline in use
    store_embed,    \* id -> model_name whose vector the collection holds for the id
    msg_status,     \* committed status of the message under review and sending
    send_tasks,     \* send_message executions waiting to run: how invoked, request.retries
    channel_calls,  \* calls of the channel sender for the message
    channel_sends,  \* calls of the channel sender that delivered the message
    reviews         \* review_message requests handled so far

send_vars == << msg_status, send_tasks, channel_calls, channel_sends, reviews >>

worker_vars == << mode, lead_exists, auto_send, flaky, task, attempts, db_lead,
                 db_messages, db_interactions, send_queue, last, send_vars >>

embed_vars == << embed_model, store_embed >>

kb_vars == << kb, deleted, op, index_meta, run, embed_vars >>

vars == << query, contexts, ctx_given, lead, index, intent, backend,
           classification, message, raised, prompt_ctx, model_logs, worker_vars,
           kb_vars >>

None == "None"

NoTask == [state |-> None, retries |-> 0, countdown |-> 0]

NoAttempt == [fault |-> None, rolled_back |-> FALSE, committed |-> FALSE, send_called |-> FALSE]

NoClassification == [intent |-> None, confidence |-> 0, reason |-> None]

NoOp == [name |-> None, force |-> FALSE, fault |-> None, embedded |-> FALSE,
         added |-> {}, limit |-> 0, filter |-> None]

NoRun == [pc |-> "idle", force |-> FALSE, docs |-> {}]

\* no knowledge-base operation in this run
KbIdle ==
    /\ kb = << >>
    /\ deleted = {}
    /\ op = NoOp
    /\ index_meta = << >>
    /\ run = NoRun
    /\ embed_model = None
    /\ store_embed = << >>

\* no message under review or sending in this run
SendIdle ==
    /\ msg_status = None
    /\ send_tasks = << >>
    /\ channel_calls = 0
    /\ channel_sends = 0
    /\ reviews = 0

\* no process_new_lead task in this run
WorkerIdle ==
    /\ SendIdle
    /\ mode = None
    /\ lead_exists = FALSE
    /\ auto_send = FALSE
    /\ flaky = None
    /\ task = NoTask
    /\ attempts = 0
    /\ db_lead = NoClassification
    /\ db_messages = << >>
    /\ db_interactions = << >>
    /\ send_queue = << >>
    /\ last = NoAttempt

(***************************************************************************)
(* Text helpers                                                            *)
(***************************************************************************)
UpperChars ==
    <<"A","B","C","D","E","F","G","H","I","J","K","L","M","N","O","P","Q","R","S","T","U","V","W","X","Y","Z">>

LowerChars ==
    <<"a","b","c","d","e","f","g","h","i","j","k","l","m","n","o","p","q","r","s","t","u","v","w","x","y","z">>

\* the upper-case letters and their lower-case forms
LowerMap == [c \in {UpperChars[k] : k \in 1..26} |->
                LowerChars[CHOOSE k \in 1..26 : UpperChars[k] = c]]

\* str.lower() on one character
LowerChar(c) == IF c \in DOMAIN LowerMap THEN LowerMap[c] ELSE c

\* a forgotten .lower(): the text is compared as typed
LowerMissing(s) == s

\* str.lower()
Lower(s) == [i \in 1..Len(s) |-> LowerChar(s[i])]

\* Python's `sub in text` on strings
Contains(sub, text) ==
    \E i \in 0..(Len(text) - Len(sub)) : SubSeq(text, i + 1, i + Len(sub)) = sub

RECURSIVE Flatten(_)
\* the concatenation of a sequence of texts
Flatten(parts) ==
    IF parts = << >> THEN << >> ELSE Head(parts) \o Flatten(Tail(parts))

RECURSIVE Join(_, _)
\* sep.join(parts)
Join(sep, parts) ==
    IF parts = << >> THEN << >>
    ELSE IF Len(parts) = 1 THEN parts[1]
    ELSE parts[1] \o sep \o Join(sep, Tail(parts))

(***************************************************************************)
(* _classify_with_rules                                                    *)
(***************************************************************************)
hot_signals ==
    << <<"u","r","g","e","n","t">>,
       <<"a","s","a","p">>,
       <<"i","m","m","e","d","i","a","t","e","l","y">>,
       <<"b","u","y"," ","n","o","w">>,
       <<"p","u","r","c","h","a","s","e">>,
       <<"p","r","i","c","i","n","g">>,
       <<"d","e","m","o">>,
       <<"t","r","i","a","l">>,
       <<"s","t","a","r","t"," ","t","o","d","a","y">> >>

warm_signals ==
    << <<"i","n","t","e","r","e","s","t","e","d">>,
       <<"l","e","a","r","n"," ","m","o","r","e">>,
       <<"i","n","f","o","r","m","a","t","i","o","n">>,
       <<"h","o","w"," ","d","o","e","s">>,
       <<"t","e","l","l"," ","m","e"," ","a","b","o","u","t">>,
       <<"c","u","r","i","o","u","s">>,
       <<"e","x","p","l","o","r","i","n","g">> >>

\* [s for s in signals if s in query_lower]
Matched(signals, query_lower) ==
    SelectSeq(signals, LAMBDA s : Contains(s, query_lower))

\* the length rule dropped from the cascade
ClassifyNoLengthRule(q, ctxs, source_meta) ==
    LET query_lower == Lower(q) IN
    IF Matched(hot_signals, query_lower) # << >>
    THEN [intent |-> "hot", confidence |-> 85,
          reason |-> [text |-> "High-intent keywords detected",
                      detail |-> Matched(hot_signals, query_lower)]]
    ELSE IF Matched(warm_signals, query_lower) # << >>
    THEN [intent |-> "warm", confidence |-> 70,
          reason |-> [text |-> "Interest indicators found",
                      detail |-> Matched(warm_signals, query_lower)]]
    ELSE IF ctxs # << >> /\ ctxs[1].score > 70
    THEN [intent |-> "warm", confidence |-> 65,
          reason |-> [text |-> "Relevant to our knowledge base",
                      detail |-> << ctxs[1].title >>]]
    ELSE [intent |-> "cold", confidence |-> 50,
          reason |-> [text |-> "Standard inquiry, no strong signals",
                      detail |-> << >>]]

\* the warm rule tried before the hot rule
ClassifyWarmFirst(q, ctxs, source_meta) ==
    LET query_lower == Lower(q) IN
    IF Matched(warm_signals, query_lower) # << >>
    THEN [intent |-> "warm", confidence |-> 70,
          reason |-> [text |-> "Interest indicators found",
                      detail |-> Matched(warm_signals, query_lower)]]
    ELSE IF Matched(hot_signals, query_lower) # << >>
    THEN [intent |-> "hot", confidence |-> 85,
          reason |-> [text |-> "High-intent keywords detected",
                      detail |-> Matched(hot_signals, query_lower)]]
    ELSE IF Len(q) < 20
    THEN [intent |-> "cold", confidence |-> 60,
          reason |-> [text |-> "Brief inquiry, needs more context",
                      detail |-> << >>]]
    ELSE IF ctxs # << >> /\ ctxs[1].score > 70
    THEN [intent |-> "warm", confidence |-> 65,
          reason |-> [text |-> "Relevant to our knowledge base",
                      detail |-> << ctxs[1].title >>]]
    ELSE [intent |-> "cold", confidence |-> 50,
          reason |-> [text |-> "Standard inquiry, no strong signals",
                      detail |-> << >>]]

\* the retrieval rule with >= in place of >
ClassifyScoreGeq(q, ctxs, source_meta) ==
    LET query_lower == Lower(q) IN
    IF Matched(hot_signals, query_lower) # << >>
    THEN [intent |-> "hot", confidence |-> 85,
          reason |-> [text |-> "High-intent keywords detected",
                      detail |-> Matched(hot_signals, query_lower)]]
    ELSE IF Matched(warm_signals, query_lower) # << >>
    THEN [intent |-> "warm", confidence |-> 70,
          reason |-> [text |-> "Interest indicators found",
                      detail |-> Matched(warm_signals, query_lower)]]
    ELSE IF Len(q) < 20
    THEN [intent |-> "cold", confidence |-> 60,
          reason |-> [text |-> "Brief inquiry, needs more context",
                      detail |-> << >>]]
    ELSE IF ctxs # << >> /\ ctxs[1].score >= 70
    THEN [intent |-> "warm", confidence |-> 65,
          reason |-> [text |-> "Relevant to our knowledge base",
                      detail |-> << ctxs[1].title >>]]
    ELSE [intent |-> "cold", confidence |-> 50,
          reason |-> [text |-> "Standard inquiry, no strong signals",
                      detail |-> << >>]]

\* _classify_with_rules(query, contexts, source_meta): the ordered cascade
_classify_with_rules(q, ctxs, source_meta) ==
    LET query_lower == Lower(q) IN
    IF Matched(hot_signals, query_lower) # << >>
    THEN [intent |-> "hot", confidence |-> 85,
          reason |-> [text |-> "High-intent keywords detected",
                      detail |-> Matched(hot_signals, query_lower)]]
    ELSE IF Matched(warm_signals, query_lower) # << >>
    THEN [intent |-> "warm", confidence |-> 70,
          reason |-> [text |-> "Interest indicators found",
                      detail |-> Matched(warm_signals, query_lower)]]
    ELSE IF Len(q) < 20
    THEN [intent |-> "cold", confidence |-> 60,
          reason |-> [text |-> "Brief inquiry, needs more context",
                      detail |-> << >>]]
    ELSE IF ctxs # << >> /\ ctxs[1].score > 70
    THEN [intent |-> "warm", confidence |-> 65,
          reason |-> [text |-> "Relevant to our knowledge base",
                      detail |-> << ctxs[1].title >>]]
    ELSE [intent |-> "cold", confidence |-> 50,
          reason |-> [text |-> "Standard inquiry, no strong signals",
                      detail |-> << >>]]

(***************************************************************************)
(* Knowledge base documents and the vector store                           *)
(***************************************************************************)
\* number of documents of the knowledge base that may be in the index
MaxDocs == 4

\* titles of the sample knowledge base, by document id
DocTitles ==
    << "Product Overview", "Pricing - Starter Plan", "Pricing - Growth Plan",
       "How It Works", "Integration Setup", "Privacy & Security",
       "Demo Request", "ROI Metrics" >>

\* doc_type of the sample knowledge base, by document id
DocTypes ==
    << "product_page", "faq", "faq", "product_page", "faq", "product_page",
       "faq", "case_study" >>

\* len(content) of the sample knowledge base, by document id
DocContentLen == << 240, 183, 192, 296, 221, 228, 221, 191 >>

DocIds == 1..MaxDocs

\* cosine distances of an indexed document to the query of the call
Dists == {20, 30, 150}

\* a RetrievedContext: content is carried as its length
MkCtx(id, sc) ==
    [doc_id |-> id, score |-> sc, title |-> DocTitles[id],
     doc_type |-> DocTypes[id], content_len |-> DocContentLen[id]]

\* content[:n]
Truncate(len, n) == IF len < n THEN len ELSE n

RECURSIVE Nearest(_, _)
\* collection.query: the ids of idx by ascending distance, insertion order on ties
Nearest(idx, ids) ==
    IF ids = {} THEN << >>
    ELSE LET best == CHOOSE i \in ids :
                        \A j \in ids : idx[i] < idx[j] \/ (idx[i] = idx[j] /\ i <= j)
         IN << best >> \o Nearest(idx, ids \ {best})

\* the similarity taken for the distance itself
SearchNoConversion(idx, n_results, filter_doc_type) ==
    LET ids    == {i \in DOMAIN idx : filter_doc_type = None \/ DocTypes[i] = filter_doc_type}
        ranked == Nearest(idx, ids)
        top    == SubSeq(ranked, 1, IF Len(ranked) < n_results THEN Len(ranked) ELSE n_results)
    IN [k \in 1..Len(top) |-> MkCtx(top[k], idx[top[k]])]

\* VectorStore.search: top n_results, score = 1.0 - distance
Search(idx, n_results, filter_doc_type) ==
    LET ids    == {i \in DOMAIN idx : filter_doc_type = None \/ DocTypes[i] = filter_doc_type}
        ranked == Nearest(idx, ids)
        top    == SubSeq(ranked, 1, IF Len(ranked) < n_results THEN Len(ranked) ELSE n_results)
    IN [k \in 1..Len(top) |-> MkCtx(top[k], 100 - idx[top[k]])]

\* every collection over the documents: doc id -> distance to the query
Indexes == UNION { [ids -> Dists] : ids \in SUBSET DocIds }

(***************************************************************************)
(* classify_lead                                                           *)
(***************************************************************************)
\* the query measured and matched is the inquiry message alone
BuildQueryMessageOnly(ld) ==
    IF ld.message # << >> THEN ld.message ELSE ld.name

\* classify_lead, lines 237-250: the query text built from the lead
BuildQuery(ld) ==
    LET company == IF ld.company # << >>
                   THEN << <<"C","o","m","p","a","n","y",":"," ">> \o ld.company >> ELSE << >>
        msg     == IF ld.message # << >>
                   THEN << <<"M","e","s","s","a","g","e",":"," ">> \o ld.message >> ELSE << >>
        subject == IF ld.subject # << >>
                   THEN << <<"S","u","b","j","e","c","t",":"," ">> \o ld.subject >> ELSE << >>
        query_parts == company \o msg \o subject
    IN IF query_parts # << >> THEN Join(<< "\n" >>, query_parts) ELSE ld.name

\* classify_lead: query, search with n_results=5, rules, result dict
classify_lead(ld, idx) ==
    LET query_text == BuildQuery(ld)
        ctxs       == Search(idx, 5, None)
        r          == _classify_with_rules(query_text, ctxs, ld)
    IN [intent |-> r.intent, confidence |-> r.confidence, reason |-> r.reason,
        retrieved_docs |-> [k \in 1..Len(ctxs) |-> ctxs[k].doc_id],
        context_snippets |-> [k \in 1..Len(ctxs) |-> Truncate(ctxs[k].content_len, 200)]]

(***************************************************************************)
(* Inputs of the classification calls                                      *)
(***************************************************************************)
\* number of fragments a query text is put together from
MaxParts == 3

\* number of contexts handed to _classify_with_rules
MaxRuleCtx == 2

Fragments ==
    { <<"h","i">>,
      <<"H","e","l","l","o"," ","t","e","a","m">>,
      <<"n","e","e","d"," ","h","e","l","p">>,
      <<"D","E","M","O">>,
      <<"A","s","a","p">>,
      <<"b","u","y">>,
      <<" ","n","o","w">>,
      <<"C","u","r","i","o","u","s">> }

Texts == UNION { { Flatten(parts) : parts \in [1..n -> Fragments] } : n \in 0..MaxParts }

RuleScores == {70, 71}

RuleCtxLists ==
    UNION { { [k \in 1..n |-> MkCtx(k, sc[k])] : sc \in [1..n -> RuleScores] } : n \in 0..MaxRuleCtx }

NoLead == [name |-> << >>, company |-> << >>, message |-> << >>, subject |-> << >>]

Names == { <<"A","l">> }

Companies == { << >>, <<"A","c","m","e"," ","C","o","r","p">>, <<"T","r","i","a","l"," ","L","a","b","s">> }

Messages ==
    { << >>, <<"h","i">>,
      <<"C","u","r","i","o","u","s">>,
      <<"W","h","a","t"," ","c","a","n"," ","y","o","u","r"," ","p","r","o","d","u","c","t"," ","d","o"," ","f","o","r"," ","u","s","?">> }

Subjects == { << >>, <<"H","e","l","l","o">>, <<"p","r","i","c","i","n","g">> }

Leads == [name : Names, company : Companies, message : Messages, subject : Subjects]

NoBackend == [outcome |-> None, text |-> << >>, tokens |-> 0, audit |-> None, store |-> None]

InitRules ==
    /\ KbIdle
    /\ WorkerIdle
    /\ query \in Texts
    /\ contexts \in RuleCtxLists
    /\ ctx_given = TRUE
    /\ lead = NoLead
    /\ index = << >>
    /\ intent = None
    /\ backend = NoBackend
    /\ classification = << >>
    /\ message = << >>
    /\ raised = None
    /\ prompt_ctx = << >>
    /\ model_logs = 0

\* a direct call of _classify_with_rules(query, contexts, source_meta)
ClassifyWithRules ==
    /\ classification = << >>
    /\ lead = NoLead
    /\ classification' = << _classify_with_rules(query, contexts, lead) >>
    /\ UNCHANGED << query, contexts, ctx_given, lead, index, intent, backend, message,
                    raised, prompt_ctx, model_logs, worker_vars, kb_vars >>

SpecRules == InitRules /\ [][ClassifyWithRules]_vars

InitLead ==
    /\ KbIdle
    /\ WorkerIdle
    /\ lead \in Leads
    /\ index \in Indexes
    /\ query = << >>
    /\ contexts = << >>
    /\ ctx_given = FALSE
    /\ intent = None
    /\ backend = NoBackend
    /\ classification = << >>
    /\ message = << >>
    /\ raised = None
    /\ prompt_ctx = << >>
    /\ model_logs = 0

\* a call of classify_lead(lead_data); query and contexts record what the rules saw
ClassifyLead ==
    /\ classification = << >>
    /\ lead # NoLead
    /\ classification' = << classify_lead(lead, index) >>
    /\ query' = BuildQuery(lead)
    /\ contexts' = Search(index, 5, None)
    /\ UNCHANGED << ctx_given, lead, index, intent, backend, message, raised,
                    prompt_ctx, model_logs, worker_vars, kb_vars >>

SpecLead == InitLead /\ [][ClassifyLead]_vars

(***************************************************************************)
(* retrieve_context_for_message                                            *)
(***************************************************************************)
\* the intent-specific keyword seed of the generation query
QuerySeed(it) ==
    IF it = "hot" THEN <<"p","r","i","c","i","n","g"," ","d","e","m","o"," ","t","r","i","a","l"," ","p","u","r","c","h","a","s","e">>
    ELSE IF it = "warm" THEN <<"f","e","a","t","u","r","e","s"," ","b","e","n","e","f","i","t","s"," ","h","o","w"," ","i","t"," ","w","o","r","k","s">>
    ELSE <<"i","n","t","r","o","d","u","c","t","i","o","n"," ","o","v","e","r","v","i","e","w"," ","g","e","t","t","i","n","g"," ","s","t","a","r","t","e","d">>

\* the generation query: seed, then the company name when present
GenQuery(ld, it) ==
    Join(<< " " >>, << QuerySeed(it) >> \o (IF ld.company # << >> THEN << ld.company >> ELSE << >>))

\* the faq filter applied whatever the intent
RetrieveAlwaysFiltered(ld, it, idx) == Search(idx, 3, "faq")

\* retrieve_context_for_message: 3 results, doc_type=faq only when hot
retrieve_context_for_message(ld, it, idx) ==
    Search(idx, 3, IF it = "hot" THEN "faq" ELSE None)

(***************************************************************************)
(* _parse_response                                                         *)
(* The markers SUBJECT: and BODY: are single tokens of the text.           *)
(***************************************************************************)
IsSpace(c) == c \in {" ", "\n"}

RECURSIVE LStrip(_)
LStrip(s) == IF s # << >> /\ IsSpace(Head(s)) THEN LStrip(Tail(s)) ELSE s

RECURSIVE RStrip(_)
RStrip(s) ==
    IF s # << >> /\ IsSpace(s[Len(s)]) THEN RStrip(SubSeq(s, 1, Len(s) - 1)) ELSE s

\* str.strip()
Strip(s) == RStrip(LStrip(s))

\* str.startswith(marker) for a one-token marker
StartsWith(s, marker) == s # << >> /\ s[1] = marker

\* str.replace(marker, '')
Remove(s, marker) == SelectSeq(s, LAMBDA c : c # marker)

RECURSIVE SplitLines(_, _)
\* content.split('\n'), cur being the line read so far
SplitLines(s, cur) ==
    IF s = << >> THEN << cur >>
    ELSE IF Head(s) = "\n" THEN << cur >> \o SplitLines(Tail(s), << >>)
    ELSE SplitLines(Tail(s), Append(cur, Head(s)))

RECURSIVE ParseLines(_, _)
\* the loop over the lines, st = [subject, body_lines, in_body]
ParseLines(lines, st) ==
    IF lines = << >> THEN st
    ELSE LET line == Head(lines) IN
         IF StartsWith(Strip(line), "SUBJECT:")
         THEN ParseLines(Tail(lines), [st EXCEPT !.subject = Strip(Remove(line, "SUBJECT:"))])
         ELSE IF StartsWith(Strip(line), "BODY:")
         THEN LET body_start == Strip(Remove(line, "BODY:")) IN
              ParseLines(Tail(lines),
                         [st EXCEPT !.in_body = TRUE,
                                    !.body_lines = IF body_start # << >>
                                                   THEN Append(@, body_start) ELSE @])
         ELSE IF st.in_body
         THEN ParseLines(Tail(lines), [st EXCEPT !.body_lines = Append(@, line)])
         ELSE ParseLines(Tail(lines), st)

GenericSubject == << "Re: Your inquiry about BizPilot" >>

\* the body left empty when nothing follows BODY:
ParseNoBodyFallback(content) ==
    LET st   == ParseLines(SplitLines(content, << >>),
                           [subject |-> << >>, body_lines |-> << >>, in_body |-> FALSE])
        body == Strip(Join(<< "\n" >>, st.body_lines))
    IN [subject |-> IF st.subject = << >> THEN GenericSubject ELSE st.subject,
        body    |-> body]

\* _parse_response(content) -> (subject, body)
_parse_response(content) ==
    LET st   == ParseLines(SplitLines(content, << >>),
                           [subject |-> << >>, body_lines |-> << >>, in_body |-> FALSE])
        body == Strip(Join(<< "\n" >>, st.body_lines))
    IN [subject |-> IF st.subject = << >> THEN GenericSubject ELSE st.subject,
        body    |-> IF body = << >> THEN content ELSE body]

(***************************************************************************)
(* _calculate_confidence                                                   *)
(***************************************************************************)
RECURSIVE SumScores(_)
\* sum(ctx.score for ctx in contexts)
SumScores(ctxs) == IF ctxs = << >> THEN 0 ELSE Head(ctxs).score + SumScores(Tail(ctxs))

\* unknown intents weighted like cold ones
IntentWeightColdDefault(it) ==
    IF it = "hot" THEN 100 ELSE IF it = "warm" THEN 85 ELSE 70

\* intent_weights.get(intent, 0.6), in hundredths
IntentWeight(it) ==
    IF it = "hot" THEN 100 ELSE IF it = "warm" THEN 85 ELSE IF it = "cold" THEN 70 ELSE 60

\* round(num/den, 0) for den > 0: the nearest integer; on an exact tie the binary
\* value of the float product decides (round(0.425, 2) = 0.42, round(0.255, 2)
\* = 0.26), so either neighbour may come out
RoundOutcomes(num, den) ==
    LET q == num \div den
        r == num % den
    IN IF 2 * r < den THEN {q} ELSE IF 2 * r > den THEN {q + 1} ELSE {q, q + 1}

\* the values _calculate_confidence(contexts, intent) can return, in hundredths
_calculate_confidence(ctxs, it) ==
    IF ctxs = << >> THEN {50}
    ELSE LET num == SumScores(ctxs) * IntentWeight(it)
             den == Len(ctxs) * 100
         IN IF num > 95 * den THEN {95} ELSE RoundOutcomes(num, den)

(***************************************************************************)
(* generate_message                                                        *)
(***************************************************************************)
\* an intent without a template of its own served by the warm template
TemplateNameWarmDefault(it) ==
    IF it = "hot" THEN "high_intent_followup"
    ELSE IF it = "cold" THEN "introduction"
    ELSE "nurture_followup"

\* templates.get(intent, templates['cold'])['name']
TemplateName(it) ==
    IF it = "hot" THEN "high_intent_followup"
    ELSE IF it = "warm" THEN "nurture_followup"
    ELSE "introduction"

\* the names of the documents in the prompt's context block: the top 3
PromptContext(ctxs) ==
    [k \in 1..(IF Len(ctxs) < 3 THEN Len(ctxs) ELSE 3) |-> ctxs[k].doc_id]

\* the canned subject and body looked up without a default for unknown intents
FallbackNoDefault(ld, it) ==
    [subject |-> IF it = "hot" THEN << "Re: Your BizPilot inquiry" >>
                 ELSE IF it = "warm" THEN << "Learn more about BizPilot" >>
                 ELSE IF it = "cold" THEN << "Nice to meet you!" >>
                 ELSE << >>,
     body |-> IF it \in {"hot", "warm", "cold"}
              THEN << "Hi " >> \o ld.name \o << ",\n\n", "fallback body", it >>
              ELSE << >>,
     channel |-> "email", confidence |-> 50, template_used |-> "fallback",
     context_used |-> << >>, context_snippets |-> << >>,
     model_version |-> "fallback", latency_ms |-> 0, tokens_used |-> 0]

\* _generate_fallback_message(lead_data, intent)
_generate_fallback_message(ld, it) ==
    LET key == IF it \in {"hot", "warm", "cold"} THEN it ELSE "cold" IN
    [subject |-> IF key = "hot" THEN << "Re: Your BizPilot inquiry" >>
                 ELSE IF key = "warm" THEN << "Learn more about BizPilot" >>
                 ELSE << "Nice to meet you!" >>,
     body |-> << "Hi " >> \o ld.name \o << ",\n\n", "fallback body", key >>,
     channel |-> "email", confidence |-> 50, template_used |-> "fallback",
     context_used |-> << >>, context_snippets |-> << >>,
     model_version |-> "fallback", latency_ms |-> 0, tokens_used |-> 0]

\* whether the try block of generate_message runs to its return statement
TrySucceeds(be) == be.outcome = "ok" /\ be.audit = "ok"

\* generate_message from the try block on: ctxs are the contexts of the call,
\* be the backend's behaviour, conf the value _calculate_confidence returned,
\* latency the measured milliseconds
generate_message(ld, it, ctxs, be, conf, latency) ==
    IF TrySucceeds(be)
    THEN LET parsed == _parse_response(be.text) IN
         [subject |-> parsed.subject, body |-> parsed.body,
          channel |-> "email", confidence |-> conf,
          template_used |-> TemplateName(it),
          context_used |-> [k \in 1..Len(ctxs) |-> ctxs[k].doc_id],
          context_snippets |-> [k \in 1..Len(ctxs) |-> Truncate(ctxs[k].content_len, 200)],
          model_version |-> "claude-sonnet-4-5-20250929",
          latency_ms |-> latency, tokens_used |-> be.tokens]
    ELSE _generate_fallback_message(ld, it)

(***************************************************************************)
(* Inputs of the generation calls                                          *)
(***************************************************************************)
\* number of contexts a caller hands to generate_message
MaxCtx == 4

\* number of tokens of a raw backend text
MaxRaw == 4

Intents == {"hot", "warm", "cold", "unqualified", "vip"}

GenScores == {-40, 50, 70, 100}

GenCtxLists ==
    UNION { { [k \in 1..n |-> MkCtx(k, sc[k])] : sc \in [1..n -> GenScores] } : n \in 0..MaxCtx }

RawTokens == {"SUBJECT:", "BODY:", " ", "\n", "a"}

RawTexts == UNION { [1..n -> RawTokens] : n \in 0..MaxRaw }

WellFormedText == << "SUBJECT:", " ", "a", "\n", "BODY:", " ", "a", "\n", "a" >>

\* answers of the backend: a well-formed text; an API error; a timeout; a response
\* without content blocks; a block whose text is None; a response without
\* usage; and a well-formed answer whose audit record cannot be committed
Backends ==
    { [outcome |-> o, text |-> WellFormedText, tokens |-> 350, audit |-> "ok", store |-> "up"] :
        o \in {"ok", "api_error", "timeout", "empty_content", "text_none", "no_usage"} }
    \cup { [outcome |-> "ok", text |-> WellFormedText, tokens |-> 350, audit |-> "fail", store |-> "up"] }

GenLead ==
    [name |-> <<"A","l">>, company |-> <<"A","c","m","e"," ","C","o","r","p">>, message |-> <<"h","i">>, subject |-> << >>]

\* elapsed milliseconds a successful call can measure
Latencies == {0, 1200}

InitGen ==
    /\ KbIdle
    /\ WorkerIdle
    /\ query = << >>
    /\ classification = << >>
    /\ message = << >>
    /\ raised = None
    /\ prompt_ctx = << >>
    /\ model_logs = 0
    /\ \/ /\ ctx_given = TRUE
          /\ contexts \in GenCtxLists
          /\ index = << >>
          /\ intent \in Intents
          /\ backend \in Backends
          /\ lead = GenLead
       \/ /\ ctx_given = FALSE
          /\ contexts = << >>
          /\ index \in Indexes
          /\ intent \in Intents
          /\ backend \in { be \in Backends : be.outcome \in {"ok", "timeout"} /\ be.audit = "ok" }
                         \cup { [be EXCEPT !.store = "down"] : be \in { b \in Backends : b.outcome = "timeout" } }
          /\ lead \in { GenLead, [GenLead EXCEPT !.company = << >>] }
       \/ /\ ctx_given = TRUE
          /\ contexts \in { << >>, << MkCtx(1, 70) >> }
          /\ index = << >>
          /\ intent = "hot"
          /\ backend \in { [outcome |-> "ok", text |-> txt, tokens |-> 200 + Len(txt),
                            audit |-> "ok", store |-> "up"] : txt \in RawTexts }
          /\ lead = GenLead

\* a call of generate_message(lead_data, intent, retrieved_contexts) that finds
\* the vector store down while retrieving: the error escapes, outside the try
GenerateMessageRetrievalError ==
    /\ message = << >> /\ raised = None /\ intent # None
    /\ ~ctx_given /\ backend.store = "down"
    /\ raised' = "RetrievalError"
    /\ query' = GenQuery(lead, intent)
    /\ UNCHANGED << contexts, ctx_given, lead, index, intent, backend, classification,
                    message, prompt_ctx, model_logs, worker_vars, kb_vars >>

\* a call of generate_message(lead_data, intent, retrieved_contexts) that returns
GenerateMessage ==
    /\ message = << >> /\ raised = None /\ intent # None
    /\ ctx_given \/ backend.store = "up"
    /\ LET ctxs == IF ctx_given THEN contexts
                   ELSE retrieve_context_for_message(lead, intent, index)
       IN /\ \E conf \in _calculate_confidence(ctxs, intent) :
             \E latency \in Latencies :
                message' = << generate_message(lead, intent, ctxs, backend, conf, latency) >>
          /\ contexts' = ctxs
          /\ prompt_ctx' = PromptContext(ctxs)
          /\ query' = IF ctx_given THEN query ELSE GenQuery(lead, intent)
          /\ model_logs' = IF TrySucceeds(backend) THEN model_logs + 1 ELSE model_logs
    /\ UNCHANGED << ctx_given, lead, index, intent, backend, classification, raised,
                    worker_vars, kb_vars >>

NextGen == GenerateMessage \/ GenerateMessageRetrievalError

SpecGen == InitGen /\ [][NextGen]_vars

(***************************************************************************)
(* process_new_lead                                                        *)
(***************************************************************************)
\* @celery_app.task(..., max_retries=3)
MaxRetries == 3

RECURSIVE Pow2(_)
\* 2 ** n
Pow2(n) == IF n = 0 THEN 1 ELSE 2 * Pow2(n - 1)

\* the auto-send test without the AUTO_SEND_ENABLED switch
ShouldAutoSendAlways(conf, enabled) == conf >= 85

\* the auto-send test with the threshold at the fallback confidence
ShouldAutoSendFromHalf(conf, enabled) == conf >= 50 /\ enabled

\* message_data['confidence'] >= 0.85 and AUTO_SEND_ENABLED == 'true'
ShouldAutoSend(conf, enabled) == conf >= 85 /\ enabled

\* a failure of the backend also fails the task: no local recovery
AttemptFaultsNoRecovery(fl, be) ==
    {None} \cup ({fl} \cap {"embedding", "store", "commit"})
           \cup (IF be.outcome # "ok" THEN {"backend"} ELSE {})

\* the failures that can end an attempt before its commit, None for no failure:
\* the embedding service and the vector store are called by classify_lead and
\* by the retrieval of generate_message, the commit is session.commit(); a
\* failure of the backend is caught inside generate_message and ends nothing
AttemptFaults(fl, be) ==
    {None} \cup ({fl} \cap {"embedding", "store", "commit"})

\* raise self.retry(exc=e, countdown=2 ** self.request.retries): a task run by
\* a worker is queued again while request.retries < max_retries; after that,
\* and when the task function was called directly, the exception is raised
Retry(tk, md) ==
    IF md = "worker" /\ tk.retries < MaxRetries
    THEN [state |-> "retry", retries |-> tk.retries + 1, countdown |-> Pow2(tk.retries)]
    ELSE [state |-> "failed", retries |-> tk.retries, countdown |-> 0]

\* the lead updated with the intent alone
LeadColumnsIntentOnly(cls) ==
    [intent |-> cls.intent, confidence |-> 0, reason |-> None]

\* lead.intent, lead.intent_confidence, lead.classification_reason
LeadColumns(cls) ==
    [intent |-> cls.intent, confidence |-> cls.confidence, reason |-> cls.reason.text]

\* the Message row of an attempt
MessageRow(id, msg) ==
    [id |-> id, status |-> "generated", confidence |-> msg.confidence,
     prompt_template_id |-> msg.template_used, retrieved_docs |-> msg.context_used,
     body |-> msg.body]

\* the two retrievals of an attempt see the index from their own query
DistTo(idx, which) == [i \in DOMAIN idx |-> idx[i][which]]

\* one run of the body of process_new_lead(lead_id)
ProcessNewLead ==
    /\ task.state \in {"queued", "retry"}
    /\ attempts' = attempts + 1
    /\ IF ~lead_exists
       THEN /\ task' = [state |-> "error", retries |-> task.retries, countdown |-> 0]
            /\ last' = NoAttempt
            /\ UNCHANGED << classification, message, contexts, prompt_ctx, query, model_logs,
                            db_lead, db_messages, db_interactions, send_queue >>
       ELSE \E fault \in AttemptFaults(flaky, backend) :
            \E cls \in {classify_lead(lead, DistTo(index, "c"))} :
            \E ctxs \in {retrieve_context_for_message(lead, cls.intent, DistTo(index, "g"))} :
               IF fault \in {"embedding", "store", "backend"}
               THEN \* raised by classify_lead or by generate_message
                    /\ task' = Retry(task, mode)
                    /\ last' = [fault |-> fault, rolled_back |-> TRUE, committed |-> FALSE,
                                send_called |-> FALSE]
                    /\ UNCHANGED << classification, message, contexts, prompt_ctx, query,
                                    model_logs, db_lead, db_messages, db_interactions,
                                    send_queue >>
               ELSE \E conf \in _calculate_confidence(ctxs, cls.intent) :
                    \E latency \in Latencies :
                    \E msg \in {generate_message(lead, cls.intent, ctxs, backend, conf, latency)} :
                    \E row \in {MessageRow(Len(db_messages) + 1, msg)} :
                       /\ classification' = << cls >>
                       /\ message' = << msg >>
                       /\ contexts' = ctxs
                       /\ prompt_ctx' = PromptContext(ctxs)
                       /\ query' = GenQuery(lead, cls.intent)
                       /\ model_logs' = IF TrySucceeds(backend) THEN model_logs + 1
                                        ELSE model_logs
                       /\ IF fault = "commit"
                          THEN /\ task' = Retry(task, mode)
                               /\ last' = [fault |-> fault, rolled_back |-> TRUE,
                                           committed |-> FALSE, send_called |-> FALSE]
                               /\ UNCHANGED << db_lead, db_messages, db_interactions,
                                               send_queue >>
                          ELSE /\ db_lead' = LeadColumns(cls)
                               /\ db_messages' = Append(db_messages, row)
                               /\ db_interactions' =
                                      Append(db_interactions,
                                             [interaction_type |-> "message_generated",
                                              intent |-> cls.intent,
                                              confidence |-> msg.confidence])
                               /\ IF ShouldAutoSend(msg.confidence, auto_send)
                                  THEN \/ /\ send_queue' = Append(send_queue, row.id)
                                          /\ task' = [state |-> "success",
                                                      retries |-> task.retries,
                                                      countdown |-> 0]
                                          /\ last' = [fault |-> None, rolled_back |-> FALSE,
                                                      committed |-> TRUE,
                                                      send_called |-> TRUE]
                                       \/ /\ flaky = "broker"
                                          /\ UNCHANGED send_queue
                                          /\ task' = Retry(task, mode)
                                          /\ last' = [fault |-> "broker", rolled_back |-> TRUE,
                                                      committed |-> TRUE,
                                                      send_called |-> TRUE]
                                  ELSE /\ UNCHANGED send_queue
                                       /\ task' = [state |-> "success",
                                                   retries |-> task.retries,
                                                   countdown |-> 0]
                                       /\ last' = [fault |-> None, rolled_back |-> FALSE,
                                                   committed |-> TRUE,
                                                   send_called |-> FALSE]
    /\ UNCHANGED << ctx_given, lead, index, intent, backend, raised, mode, lead_exists,
                    auto_send, flaky, kb_vars, send_vars >>

WorkerDocs == {2, 4}

\* distances of an indexed document to the classification and generation queries
WorkerDists == [c : {20, 40}, g : {0, 15, 30}]

WorkerIndexes == UNION { [ids -> WorkerDists] : ids \in SUBSET WorkerDocs }

WorkerLeads ==
    { ld \in Leads : /\ ld.subject = << >>
                     /\ ld.message \in { <<"h","i">>, <<"W","h","a","t"," ","c","a","n"," ","y","o","u","r"," ","p","r","o","d","u","c","t"," ","d","o"," ","f","o","r"," ","u","s","?">> }
                     /\ ld.company \in { << >>, <<"T","r","i","a","l"," ","L","a","b","s">> } }

InitWorker ==
    /\ SendIdle
    /\ KbIdle
    /\ query = << >>
    /\ contexts = << >>
    /\ ctx_given = FALSE
    /\ intent = None
    /\ classification = << >>
    /\ message = << >>
    /\ raised = None
    /\ prompt_ctx = << >>
    /\ model_logs = 0
    /\ lead \in WorkerLeads
    /\ index \in WorkerIndexes
    /\ backend \in { be \in Backends : be.outcome \in {"ok", "timeout"} /\ be.audit = "ok" }
    /\ mode \in {"worker", "direct"}
    /\ lead_exists \in BOOLEAN
    /\ auto_send \in BOOLEAN
    /\ flaky \in {None, "embedding", "store", "commit", "broker"}
    /\ task = [state |-> "queued", retries |-> 0, countdown |-> 0]
    /\ attempts = 0
    /\ db_lead = NoClassification
    /\ db_messages = << >>
    /\ db_interactions = << >>
    /\ send_queue = << >>
    /\ last = NoAttempt

SpecWorker == InitWorker /\ [][ProcessNewLead]_vars

(***************************************************************************)
(* review_message and send_message for one stored message                  *)
(***************************************************************************)
MaxReviews == 2

\* send_message executions that may wait at one time
MaxSendTasks == 3

\* nothing but the message, its send tasks and the channel moves
SendFrame ==
    UNCHANGED << query, contexts, ctx_given, lead, index, intent, backend, classification,
                 message, raised, prompt_ctx, model_logs, mode, lead_exists, auto_send,
                 flaky, task, attempts, db_lead, db_messages, db_interactions, send_queue,
                 last, kb_vars >>

\* the sequence without its k-th element
Without(seq, k) == SubSeq(seq, 1, k - 1) \o SubSeq(seq, k + 1, Len(seq))

\* the executions a failed execution tk leaves queued when self.retry is
\* called times times on its way out: each call of a task run by a worker with
\* request.retries < max_retries queues one, a direct call queues none
Retries(tk, times) ==
    IF tk.mode = "worker" /\ tk.retries < MaxRetries
    THEN [k \in 1..times |-> [mode |-> "worker", retries |-> tk.retries + 1]]
    ELSE << >>

\* review_message(message_id, review): approve and edit set the status and add
\* send_message as a background task, reject sets the status; session.commit()
ReviewMessage ==
    /\ msg_status # None
    /\ reviews < MaxReviews
    /\ reviews' = reviews + 1
    /\ \E action \in {"approve", "edit", "reject"} :
          IF action = "reject"
          THEN /\ msg_status' = "rejected"
               /\ UNCHANGED send_tasks
          ELSE /\ Len(send_tasks) < MaxSendTasks
               /\ msg_status' = IF action = "approve" THEN "approved" ELSE "edited"
               /\ send_tasks' = Append(send_tasks, [mode |-> "direct", retries |-> 0])
    /\ UNCHANGED << channel_calls, channel_sends >>
    /\ SendFrame

\* one execution of send_message(message_id): the channel sender is called
\* whatever the status; success stores SENT, failure stores FAILED and retries
SendMessage ==
    \E k \in 1..Len(send_tasks) :
    \E outcome \in {"sent", "sent_commit_failed", "not_sent"} :
    \E tk \in {send_tasks[k]} :
       /\ channel_calls' = channel_calls + 1
       /\ IF outcome = "sent"
          THEN /\ channel_sends' = channel_sends + 1
               /\ msg_status' = "sent"
               /\ send_tasks' = Without(send_tasks, k)
          ELSE IF outcome = "sent_commit_failed"
          THEN \* session.commit() raises after the channel delivered: rollback, retry
               /\ channel_sends' = channel_sends + 1
               /\ UNCHANGED msg_status
               /\ send_tasks' = Without(send_tasks, k) \o Retries(tk, 1)
          ELSE \* FAILED is committed, self.retry(countdown=60) raises inside the
               \* try, the except clause rolls back and calls self.retry again
               /\ Len(send_tasks) + 1 <= MaxSendTasks
               /\ UNCHANGED channel_sends
               /\ msg_status' = "failed"
               /\ send_tasks' = Without(send_tasks, k) \o Retries(tk, 2)
       /\ UNCHANGED reviews
       /\ SendFrame

\* the message process_new_lead stored, with or without a send it scheduled
InitSend ==
    /\ KbIdle
    /\ query = << >>
    /\ contexts = << >>
    /\ ctx_given = FALSE
    /\ lead = NoLead
    /\ index = << >>
    /\ intent = None
    /\ backend = NoBackend
    /\ classification = << >>
    /\ message = << >>
    /\ raised = None
    /\ prompt_ctx = << >>
    /\ model_logs = 0
    /\ mode = None
    /\ lead_exists = TRUE
    /\ auto_send \in BOOLEAN
    /\ flaky = None
    /\ task = NoTask
    /\ attempts = 0
    /\ db_lead = NoClassification
    /\ db_messages = << >>
    /\ db_interactions = << >>
    /\ send_queue = << >>
    /\ last = NoAttempt
    /\ msg_status = "generated"
    /\ send_tasks = IF auto_send THEN << [mode |-> "worker", retries |-> 0] >> ELSE << >>
    /\ channel_calls = 0
    /\ channel_sends = 0
    /\ reviews = 0

NextSend ==
    \/ ReviewMessage
    \/ SendMessage

SpecSend == InitSend /\ [][NextSend]_vars

(***************************************************************************)
(* index_knowledge_base, delete_document, search                           *)
(***************************************************************************)
MaxKb == 2

KbIds == 1..MaxKb

\* distance of a document's vector to the query of the searches
KbDists == {20, 30}

SearchLimits == {1, 3, 5}

SearchFilters == {None, "faq", "video"}

\* nothing of the other subsystems moves during knowledge-base operations
KbFrame ==
    UNCHANGED << query, ctx_given, lead, intent, backend, classification, message,
                 raised, prompt_ctx, model_logs, worker_vars, embed_vars >>

\* session.query(KnowledgeBase).filter_by(active=True).all()
ActiveDocs(store) == { i \in DOMAIN store : store[i].active }

\* every document is indexed again, whether or not it carries a reference
DocsToIndexAlways(docs, store, force) == docs

\* the documents with force_refresh or not doc.embedding_id
DocsToIndex(docs, store, force) ==
    { i \in docs : force \/ store[i].embedding_id = 0 }

\* collection.add(ids, embeddings, ...): the ids not yet in the collection get
\* their vectors; an id already present keeps the entry it has
AddDocuments(idx, dist) ==
    [i \in DOMAIN idx \cup DOMAIN dist |-> IF i \in DOMAIN idx THEN idx[i] ELSE dist[i]]

\* the metadata of a vector written without the priority
MetadataNoPriority(i) ==
    [title |-> DocTitles[i], doc_type |-> DocTypes[i], source_url |-> ""]

\* vector_docs[i]['metadata']: title, doc_type, source_url or '', priority
MetadataOf(i) ==
    [title |-> DocTitles[i], doc_type |-> DocTypes[i], source_url |-> "", priority |-> 0]

\* the metadatas of collection.add: stored with the vectors of the new ids
AddMetadata(meta, ids) ==
    [i \in DOMAIN meta \cup ids |-> IF i \in DOMAIN meta THEN meta[i] ELSE MetadataOf(i)]

\* collection.delete(ids=[doc_id])
DeleteFrom(idx, id) == [i \in DOMAIN idx \ {id} |-> idx[i]]

\* KnowledgeBase(**doc_data); session.add(doc); session.commit()
CreateDocument ==
    \E i \in KbIds \ DOMAIN kb :
       /\ kb' = [j \in DOMAIN kb \cup {i} |->
                    IF j = i THEN [active |-> TRUE, embedding_id |-> 0] ELSE kb[j]]
       /\ op' = [NoOp EXCEPT !.name = "create"]
       /\ contexts' = << >>
       /\ UNCHANGED << index, deleted, index_meta, run >>
       /\ KbFrame

\* the active flag of a record is set by an administrative process
SetActive ==
    \E i \in DOMAIN kb : \E flag \in BOOLEAN :
       /\ kb[i].active # flag
       /\ kb' = [kb EXCEPT ![i].active = flag]
       /\ op' = [NoOp EXCEPT !.name = "set_active"]
       /\ contexts' = << >>
       /\ UNCHANGED << index, deleted, index_meta, run >>
       /\ KbFrame

\* index_knowledge_base(force_refresh), with a failure at step fault or none
IndexKnowledgeBase ==
    \E force \in BOOLEAN : \E fault \in {None, "embed", "add", "commit"} :
    \E docs_to_index \in {DocsToIndex(ActiveDocs(kb), kb, force)} :
       /\ contexts' = << >>
       /\ UNCHANGED << deleted, run >>
       /\ KbFrame
       /\ IF docs_to_index = {}
          THEN \* no active document, or all of them indexed already: return
               /\ fault = None
               /\ op' = [NoOp EXCEPT !.name = "index", !.force = force]
               /\ UNCHANGED << kb, index, index_meta >>
          ELSE IF fault = "embed"
          THEN \* embed_batch raises
               /\ op' = [NoOp EXCEPT !.name = "index", !.force = force, !.fault = fault]
               /\ UNCHANGED << kb, index, index_meta >>
          ELSE IF fault = "add"
          THEN \* add_documents raises: the store is unreachable, or it rejects an
               \* id it already holds; the references set on the rows are not committed
               /\ op' = [NoOp EXCEPT !.name = "index", !.force = force, !.fault = fault,
                                      !.embedded = TRUE]
               /\ UNCHANGED << kb, index, index_meta >>
          ELSE \E dist \in [docs_to_index -> KbDists] :
               /\ index' = AddDocuments(index, dist)
               /\ index_meta' = AddMetadata(index_meta, docs_to_index)
               /\ op' = [NoOp EXCEPT !.name = "index", !.force = force, !.fault = fault,
                                      !.embedded = TRUE,
                                      !.added = docs_to_index \ DOMAIN index]
               /\ IF fault = "commit"
                  THEN UNCHANGED kb
                  ELSE kb' = [i \in DOMAIN kb |->
                                 IF i \in docs_to_index
                                 THEN [kb[i] EXCEPT !.embedding_id = i]
                                 ELSE kb[i]]

\* vector_store.delete_document(f"kb_{id}")
DeleteDocument ==
    \E i \in KbIds :
       /\ index' = DeleteFrom(index, i)
       /\ index_meta' = DeleteFrom(index_meta, i)
       /\ deleted' = deleted \cup ({i} \cap DOMAIN index)
       /\ op' = [NoOp EXCEPT !.name = "delete"]
       /\ contexts' = << >>
       /\ UNCHANGED << kb, run >>
       /\ KbFrame

\* vector_store.search(query_embedding, n_results, filter_metadata)
SearchIndex ==
    \E n_results \in SearchLimits : \E filter_doc_type \in SearchFilters :
       /\ contexts' = Search(index, n_results, filter_doc_type)
       /\ op' = [NoOp EXCEPT !.name = "search", !.limit = n_results,
                              !.filter = filter_doc_type]
       /\ UNCHANGED << kb, index, deleted, index_meta, run >>
       /\ KbFrame

InitIndex ==
    /\ WorkerIdle
    /\ KbIdle
    /\ query = << >>
    /\ contexts = << >>
    /\ ctx_given = FALSE
    /\ lead = NoLead
    /\ index = << >>
    /\ intent = None
    /\ backend = NoBackend
    /\ classification = << >>
    /\ message = << >>
    /\ raised = None
    /\ prompt_ctx = << >>
    /\ model_logs = 0

NextIndex ==
    \/ CreateDocument
    \/ SetActive
    \/ IndexKnowledgeBase
    \/ DeleteDocument
    \/ SearchIndex

SpecIndex == InitIndex /\ [][NextIndex]_vars

(***************************************************************************)
(* Pipelines over one collection with different embedding models           *)
(***************************************************************************)
\* model_name of EmbeddingService: local sentence-transformers models, or the API
EmbeddingModels == {"all-MiniLM-L6-v2", "paraphrase-MiniLM-L6-v2", "openai"}

\* length of the vectors embed returns: 384 for the two MiniLM models, 1536
\* for text-embedding-3-small
ModelDim(m) == IF m = "openai" THEN 1536 ELSE 384

\* the collection takes vectors of the dimension of those it holds
DimensionFits(m, stored) == \A i \in DOMAIN stored : ModelDim(stored[i]) = ModelDim(m)

\* nothing but the embedding model, the collection and the error moves
EmbedFrame ==
    UNCHANGED << query, contexts, ctx_given, lead, index, intent, backend, classification,
                 message, prompt_ctx, model_logs, worker_vars, kb, deleted, index_meta,
                 run >>

\* RAGPipeline(embedding_model): EmbeddingService(embedding_model), VectorStore()
ConstructPipeline ==
    \E m \in EmbeddingModels :
       /\ embed_model' = m
       /\ raised' = None
       /\ op' = [NoOp EXCEPT !.name = "construct"]
       /\ UNCHANGED store_embed
       /\ EmbedFrame

\* embed_batch and add_documents of a document with the pipeline's model; the
\* collection raises InvalidDimensionException on a vector of another length
EmbedAndAdd ==
    /\ embed_model # None
    /\ \E i \in DocIds \ DOMAIN store_embed :
          IF DimensionFits(embed_model, store_embed)
          THEN /\ store_embed' = [j \in DOMAIN store_embed \cup {i} |->
                                    IF j = i THEN embed_model ELSE store_embed[j]]
               /\ raised' = None
          ELSE /\ raised' = "InvalidDimensionException"
               /\ UNCHANGED store_embed
    /\ op' = [NoOp EXCEPT !.name = "add"]
    /\ UNCHANGED embed_model
    /\ EmbedFrame

\* embed of a query with the pipeline's model and search of the collection
EmbedAndSearch ==
    /\ embed_model # None
    /\ raised' = IF DimensionFits(embed_model, store_embed) THEN None
                 ELSE "InvalidDimensionException"
    /\ op' = [NoOp EXCEPT !.name = "search"]
    /\ UNCHANGED embed_vars
    /\ EmbedFrame

NextEmbed ==
    \/ ConstructPipeline
    \/ EmbedAndAdd
    \/ EmbedAndSearch

SpecEmbed == InitIndex /\ [][NextEmbed]_vars

(***************************************************************************)
(* index_knowledge_base step by step, with searches in between             *)
(***************************************************************************)
IndexStep == [NoOp EXCEPT !.name = "index_step"]

\* the query of the active rows and the choice of docs_to_index
IndexSelect ==
    /\ run.pc = "idle"
    /\ \E force \in BOOLEAN :
       \E docs_to_index \in {DocsToIndex(ActiveDocs(kb), kb, force)} :
          run' = IF docs_to_index = {} THEN NoRun
                 ELSE [pc |-> "selected", force |-> force, docs |-> docs_to_index]
    /\ op' = IndexStep
    /\ contexts' = << >>
    /\ UNCHANGED << kb, index, deleted, index_meta >>
    /\ KbFrame

\* embedding_service.embed_batch(contents), which may raise
IndexEmbed ==
    /\ run.pc = "selected"
    /\ run' \in { [run EXCEPT !.pc = "embedded"], NoRun }
    /\ op' = IndexStep
    /\ contexts' = << >>
    /\ UNCHANGED << kb, index, deleted, index_meta >>
    /\ KbFrame

\* vector_store.add_documents(vector_docs, embeddings), which may raise
IndexAdd ==
    /\ run.pc = "embedded"
    /\ \/ /\ \E dist \in [run.docs -> KbDists] : index' = AddDocuments(index, dist)
          /\ index_meta' = AddMetadata(index_meta, run.docs)
          /\ run' = [run EXCEPT !.pc = "added"]
       \/ /\ run' = NoRun
          /\ UNCHANGED << index, index_meta >>
    /\ op' = IndexStep
    /\ contexts' = << >>
    /\ UNCHANGED << kb, deleted >>
    /\ KbFrame

\* session.commit() of the embedding_id set on the selected rows, which may raise
IndexCommit ==
    /\ run.pc = "added"
    /\ \/ kb' = [i \in DOMAIN kb |->
                    IF i \in run.docs THEN [kb[i] EXCEPT !.embedding_id = i] ELSE kb[i]]
       \/ UNCHANGED kb
    /\ run' = NoRun
    /\ op' = IndexStep
    /\ contexts' = << >>
    /\ UNCHANGED << index, deleted, index_meta >>
    /\ KbFrame

NextIndexSteps ==
    \/ CreateDocument
    \/ IndexSelect
    \/ IndexEmbed
    \/ IndexAdd
    \/ IndexCommit
    \/ DeleteDocument
    \/ SearchIndex

SpecIndexSteps == InitIndex /\ [][NextIndexSteps]_vars

(***************************************************************************)
(* Properties of the classifier                                            *)
(***************************************************************************)
\* two characters that are the same letter, whatever their case
LetterPairs ==
    UNION { { << UpperChars[k], LowerChars[k] >>, << LowerChars[k], UpperChars[k] >> } : k \in 1..26 }

SameLetter(a, b) == a = b \/ << a, b >> \in LetterPairs

\* phrase occurs in text as a case-insensitive substring
OccursCI(phrase, text) ==
    \E i \in 1..Len(text) :
        /\ i + Len(phrase) - 1 <= Len(text)
        /\ \A j \in 1..Len(phrase) : SameLetter(text[i + j - 1], phrase[j])

HotIn(text) == { k \in 1..Len(hot_signals) : OccursCI(hot_signals[k], text) }

WarmIn(text) == { k \in 1..Len(warm_signals) : OccursCI(warm_signals[k], text) }

Classified == classification # << >>

\* C1: a query with at least one hot phrase (any case) is hot with confidence
\* 0.85, and the reason lists exactly the hot phrases that occur in the query,
\* each once, whatever the contexts.
C1_HotPhraseIsHot ==
    Classified =>
        LET hot == HotIn(query)
            r   == classification[1]
        IN hot # {} =>
            /\ r.intent = "hot"
            /\ r.confidence = 85
            /\ r.reason.text = "High-intent keywords detected"
            /\ { r.reason.detail[i] : i \in DOMAIN r.reason.detail }
                 = { hot_signals[k] : k \in hot }
            /\ Len(r.reason.detail) = Cardinality(hot)

\* C1 witness: two hot phrases, one typed in upper case, with a relevant top context
C1_Witness ==
    /\ Classified
    /\ contexts # << >>
    /\ contexts[1].score > 70
    /\ query # Lower(query)
    /\ Cardinality(HotIn(query)) >= 2

\* C2: the cascade is ordered, first match wins: hot and warm phrase together
\* give hot/0.85; a warm phrase without a hot one gives warm/0.70 also under 20
\* characters; the length and retrieval rules answer only when no phrase occurs.
C2_OrderedCascade ==
    Classified =>
        LET hot  == HotIn(query)
            warm == WarmIn(query)
            r    == classification[1]
        IN /\ (hot # {} /\ warm # {}) => (r.intent = "hot" /\ r.confidence = 85)
           /\ (hot = {} /\ warm # {}) => (r.intent = "warm" /\ r.confidence = 70)
           /\ r.reason.text \in { "Brief inquiry, needs more context",
                                  "Relevant to our knowledge base",
                                  "Standard inquiry, no strong signals" }
                  => (hot = {} /\ warm = {})

\* C2 witness: a hot and a warm phrase in one query shorter than 20 characters
C2_Witness ==
    Classified /\ Len(query) < 20 /\ HotIn(query) # {} /\ WarmIn(query) # {}

\* C3: a query under 20 characters with no hot and no warm phrase is cold with
\* confidence 0.60, whatever the contexts.
C3_ShortIsCold ==
    (Classified /\ Len(query) < 20) =>
        LET r == classification[1]
        IN (HotIn(query) = {} /\ WarmIn(query) = {}) =>
            /\ r.intent = "cold"
            /\ r.confidence = 60
            /\ r.reason.text = "Brief inquiry, needs more context"

\* C3 witness: a 19-character query without phrases and a top context above 0.70
C3_Witness ==
    /\ Classified
    /\ Len(query) = 19
    /\ contexts # << >>
    /\ contexts[1].score > 70
    /\ HotIn(query) = {}
    /\ WarmIn(query) = {}

\* C4: a lead whose inquiry message is "hi" is classified cold with confidence
\* 0.60 and the insufficient-context reason, whatever its company, subject and
\* the index contents.
C4_HiIsCold ==
    (Classified /\ lead.message = <<"h","i">>) =>
        /\ classification[1].intent = "cold"
        /\ classification[1].confidence = 60
        /\ classification[1].reason.text = "Brief inquiry, needs more context"

\* C5: with 20 or more characters and no phrase, the result is warm/0.65 naming
\* the top document's title exactly when there is a first context with score
\* strictly above 0.70, and cold/0.50 otherwise.
C5_RetrievalRule ==
    (Classified /\ Len(query) >= 20) =>
        LET r == classification[1]
        IN (HotIn(query) = {} /\ WarmIn(query) = {}) =>
            IF Len(contexts) > 0 /\ contexts[1].score > 70
            THEN /\ r.intent = "warm"
                 /\ r.confidence = 65
                 /\ r.reason.text = "Relevant to our knowledge base"
                 /\ r.reason.detail = << contexts[1].title >>
            ELSE /\ r.intent = "cold"
                 /\ r.confidence = 50
                 /\ r.reason.text = "Standard inquiry, no strong signals"

\* C5 witness: exactly 20 characters, no phrase, top score exactly 0.70
C5_Witness ==
    /\ Classified
    /\ Len(query) = 20
    /\ Len(contexts) > 0
    /\ contexts[1].score = 70
    /\ classification[1].confidence = 50
    /\ HotIn(query) = {}
    /\ WarmIn(query) = {}

(***************************************************************************)
(* Properties of the message generator                                     *)
(***************************************************************************)
Returned == message # << >>

\* the call returned from the end of its try block, not through the fallback
Succeeded == Returned /\ message[1].template_used # "fallback"

\* the generative backend was called and the call failed
BackendFailed == backend.outcome # "ok" /\ (ctx_given \/ backend.store = "up")

\* the intent weights as documented, in hundredths
DocumentedWeight(it) ==
    CASE it = "hot" -> 100 [] it = "warm" -> 85 [] it = "cold" -> 70 [] OTHER -> 60

\* conf is the documented confidence of ctxs: 0.5 without contexts, else a
\* hundredth nearest to mean(score) * weight, 0.95 when that product reaches 0.95
ConfidenceFits(ctxs, it, conf) ==
    IF Len(ctxs) = 0 THEN conf = 50
    ELSE LET num == SumScores(ctxs) * DocumentedWeight(it)
             den == 100 * Len(ctxs)
         IN IF num >= 95 * den THEN conf = 95
            ELSE /\ 2 * (conf * den - num) <= den
                 /\ 2 * (num - conf * den) <= den

\* C6: when the backend call fails (error, timeout, malformed response), the
\* call does not raise and returns the fallback message: confidence 0.50,
\* template "fallback", no contexts, zero latency and tokens, non-empty
\* subject and body, for every intent.
C6_BackendFailureFallsBack ==
    ((Returned \/ raised # None) /\ BackendFailed) =>
        /\ raised = None
        /\ Returned
        /\ message[1].confidence = 50
        /\ message[1].template_used = "fallback"
        /\ message[1].context_used = << >>
        /\ message[1].context_snippets = << >>
        /\ message[1].latency_ms = 0
        /\ message[1].tokens_used = 0
        /\ message[1].subject # << >>
        /\ message[1].body # << >>

\* C6 witness: a timed-out backend call for an unknown intent with contexts at hand
C6_Witness ==
    /\ Returned
    /\ backend.outcome = "timeout"
    /\ intent = "vip"
    /\ contexts # << >>

\* C7: with scores in [-1, 1] the confidence of every result lies in [0, 0.95].
C7_ConfidenceInRange ==
    Returned => (message[1].confidence >= 0 /\ message[1].confidence <= 95)

\* C8: the confidence of a generated message is 0.5 without contexts, and
\* otherwise the mean score times the intent weight (hot 1.0, warm 0.85, cold
\* 0.70, other 0.60), capped at 0.95 and rounded to 2 decimals.
C8_ConfidenceReference ==
    Succeeded => ConfidenceFits(contexts, intent, message[1].confidence)

\* C8 witness: an unknown intent with several contexts of positive mean
C8_Witness ==
    /\ Succeeded
    /\ intent \notin {"hot", "warm", "cold"}
    /\ Len(contexts) >= 2
    /\ SumScores(contexts) > 0

\* C9: on success the contexts averaged for the confidence and the ids in
\* context_used are exactly the contexts put in the prompt (at most the top 3).
C9_UsedContextsAreThePromptContexts ==
    Succeeded =>
        /\ message[1].context_used = prompt_ctx
        /\ ConfidenceFits(SubSeq(contexts, 1, Len(prompt_ctx)), intent, message[1].confidence)

\* C10: every result of generate_message has a non-empty body, on the
\* successful and on the fallback path, for every raw backend text.
C10_BodyNonEmpty ==
    Returned => message[1].body # << >>

\* C11: every call of generate_message, successful or fallback, reports exactly
\* one audit record (ModelLog) for that call.
C11_OneAuditRecordPerCall ==
    Returned => model_logs = 1

\* C12: when the backend call and the parsing succeed, a failure to record the
\* audit row neither raises nor changes the returned subject, body, confidence,
\* template or context lists.
C12_ResultIndependentOfAudit ==
    (Returned /\ backend.outcome = "ok") =>
        /\ raised = None
        /\ message[1].subject = _parse_response(backend.text).subject
        /\ message[1].body = _parse_response(backend.text).body
        /\ message[1].confidence \in _calculate_confidence(contexts, intent)
        /\ message[1].template_used = TemplateName(intent)
        /\ message[1].context_used = [k \in 1..Len(contexts) |-> contexts[k].doc_id]

(***************************************************************************)
(* Properties of process_new_lead                                          *)
(***************************************************************************)
BackendOutageOnly == lead_exists /\ flaky = None /\ backend.outcome # "ok"

\* C13: when only the generative backend fails, processing an existing lead
\* is over after its first attempt, in success and without retry, with the
\* classification persisted on the lead and exactly one message persisted, in
\* status GENERATED, of confidence 0.50 and template "fallback".
C13_BackendOutageStillSucceeds ==
    (BackendOutageOnly /\ attempts > 0) =>
        /\ task.state = "success" /\ attempts = 1 /\ task.retries = 0
        /\ db_lead.intent \in {"hot", "warm", "cold"}
        /\ db_lead.intent = classification[1].intent
        /\ Len(db_messages) = 1
        /\ db_messages[1].status = "generated"
        /\ db_messages[1].confidence = 50
        /\ db_messages[1].prompt_template_id = "fallback"

C13_Witness ==
    /\ BackendOutageOnly /\ task.state = "success"
    /\ Len(db_messages) = 1 /\ db_messages[1].prompt_template_id = "fallback"

C15_RetryPolicy ==
    /\ attempts <= 4 /\ task.retries <= 3
    /\ last.fault # None =>
          /\ last.rolled_back
          /\ \/ /\ task.state = "retry"
                /\ task.retries = attempts
                /\ task.countdown = Pow2(task.retries - 1)
             \/ /\ task.state = "failed"
                /\ task.retries = 3 /\ attempts = 4
    /\ (~lead_exists /\ attempts > 0) =>
          task.state = "error" /\ attempts = 1 /\ task.retries = 0

(***************************************************************************)
(* Properties of the knowledge-base index                                  *)
(***************************************************************************)
AllActiveIndexed == \A i \in ActiveDocs(kb) : kb[i].embedding_id # 0

Searched == op.name = "search"

\* C16: an unforced index_knowledge_base run that finds every active document
\* carrying an embedding reference computes no embedding, adds nothing to the
\* vector index and changes no reference and no index entry; and an unforced
\* run right after a completed unforced run changes nothing.
C16_UnforcedReindexIsNoOp ==
    [][ /\ (op'.name = "index" /\ ~op'.force /\ AllActiveIndexed) =>
              /\ ~op'.embedded /\ op'.added = {} /\ op'.fault = None
              /\ kb' = kb /\ index' = index
        /\ (/\ op.name = "index" /\ ~op.force /\ op.fault = None
            /\ op'.name = "index" /\ ~op'.force) =>
              kb' = kb /\ index' = index ]_vars

C16_Witness ==
    /\ op.name = "index" /\ ~op.force /\ op.fault = None /\ ~op.embedded
    /\ ActiveDocs(kb) # {} /\ AllActiveIndexed
    /\ DOMAIN index = DOMAIN kb

\* C17: in every reachable state a document has a persisted embedding reference
\* exactly when the vector index holds an entry under that reference.
C17_StoreAndIndexConsistent ==
    \A i \in KbIds :
       (i \in DOMAIN kb /\ kb[i].embedding_id # 0) <=> i \in DOMAIN index

\* C18: a search never returns a document whose active flag is false.
C18_SearchOnlyActive ==
    Searched => \A k \in 1..Len(contexts) : kb[contexts[k].doc_id].active

\* C19: once delete_document(id) has removed the entry of id, no later search
\* returns id, whatever index_knowledge_base runs come in between.
C19_DeletedNeverReturned ==
    Searched => \A k \in 1..Len(contexts) : contexts[k].doc_id \notin deleted

\* C20: a search with limit L returns at most L contexts, each of an indexed
\* document with score = 1 - distance, no document twice, in order of
\* non-increasing score; it returns the empty list when the index is empty or
\* no entry matches the filter, and it does not raise.
C20_SearchResultShape ==
    Searched =>
        /\ raised = None
        /\ Len(contexts) <= op.limit
        /\ \A k \in 1..Len(contexts) :
              /\ contexts[k].doc_id \in DOMAIN index
              /\ contexts[k].score = 100 - index[contexts[k].doc_id]
              /\ op.filter # None => contexts[k].doc_type = op.filter
        /\ \A j, k \in 1..Len(contexts) :
              j < k => /\ contexts[j].doc_id # contexts[k].doc_id
                       /\ contexts[j].score >= contexts[k].score
        /\ (\A i \in DOMAIN index : op.filter # None /\ DocTypes[i] # op.filter) =>
              contexts = << >>

C20_Witness ==
    /\ Searched /\ Len(contexts) = 2
    /\ contexts[1].score > contexts[2].score

(***************************************************************************)
(* Properties of retrieve_context_for_message                              *)
(***************************************************************************)
HotSeed == <<"p","r","i","c","i","n","g"," ","d","e","m","o"," ","t","r","i","a","l"," ","p","u","r","c","h","a","s","e">>

WarmSeed == <<"f","e","a","t","u","r","e","s"," ","b","e","n","e","f","i","t","s"," ","h","o","w"," ","i","t"," ","w","o","r","k","s">>

IntroSeed == <<"i","n","t","r","o","d","u","c","t","i","o","n"," ","o","v","e","r","v","i","e","w"," ","g","e","t","t","i","n","g"," ","s","t","a","r","t","e","d">>

Retrieved == Returned /\ ~ctx_given

\* the documents a retrieval for the intent may return
Eligible(it) ==
    IF it = "hot" THEN { i \in DOMAIN index : DocTypes[i] = "faq" } ELSE DOMAIN index

ReturnedIds == { contexts[k].doc_id : k \in 1..Len(contexts) }

\* C23: the retrieval of generate_message returns the 3 nearest entries (all of
\* them when there are fewer) among the faq entries when the intent is hot and
\* among all entries for every other intent; its query is the hot seed for hot,
\* the warm seed for warm, the introduction seed otherwise, followed by a
\* space and the company name when the lead has one.
C23_RetrievalForMessage ==
    Retrieved =>
        /\ ReturnedIds \subseteq Eligible(intent)
        /\ Len(contexts) = Cardinality(ReturnedIds)
        /\ Len(contexts) = IF Cardinality(Eligible(intent)) < 3
                           THEN Cardinality(Eligible(intent)) ELSE 3
        /\ \A i \in ReturnedIds : \A j \in Eligible(intent) \ ReturnedIds :
              index[i] <= index[j]
        /\ LET seed == IF intent = "hot" THEN HotSeed
                       ELSE IF intent = "warm" THEN WarmSeed ELSE IntroSeed
           IN query = IF lead.company = << >> THEN seed
                      ELSE seed \o << " " >> \o lead.company

C23_Witness ==
    /\ Retrieved /\ intent = "vip"
    /\ Len(contexts) = 3 /\ Cardinality(DOMAIN index) = 4
    /\ lead.company # << >>

(***************************************************************************)
(* Properties of _parse_response                                           *)
(***************************************************************************)
\* the lines of the raw text of the backend
RawLines == SplitLines(backend.text, << >>)

IsSubjectLine(line) == StartsWith(Strip(line), "SUBJECT:")

SubjectText(line) == Strip(Remove(line, "SUBJECT:"))

IsBodyLine(line) == ~IsSubjectLine(line) /\ StartsWith(Strip(line), "BODY:")

\* the text after the first BODY: marker with every line that follows it
TextAfterBodyMarker ==
    LET marks == { k \in 1..Len(RawLines) : IsBodyLine(RawLines[k]) }
    IN IF marks = {} THEN << >>
       ELSE LET first == CHOOSE k \in marks : \A m \in marks : k <= m
                start == Strip(Remove(RawLines[first], "BODY:"))
            IN Strip(Join(<< "\n" >>,
                          (IF start = << >> THEN << >> ELSE << start >>)
                          \o SubSeq(RawLines, first + 1, Len(RawLines))))

SubjectAsDocumented ==
    LET with_content == { k \in 1..Len(RawLines) :
                             IsSubjectLine(RawLines[k]) /\ SubjectText(RawLines[k]) # << >> }
    IN IF with_content = {}
       THEN message[1].subject = GenericSubject
       ELSE \E k \in with_content : message[1].subject = SubjectText(RawLines[k])

BodyAsDocumented ==
    message[1].body = IF TextAfterBodyMarker = << >> THEN backend.text
                      ELSE TextAfterBodyMarker

\* C24: for every raw backend text the parsed subject is non-empty, it is the
\* text of a SUBJECT: line with content when there is one and the generic
\* subject otherwise, and the body is the text after the BODY: marker with all
\* its continuation lines, or the whole raw text when that is empty.
C24_ParsedAsDocumented ==
    Succeeded =>
        /\ message[1].subject # << >>
        /\ SubjectAsDocumented
        /\ BodyAsDocumented

(***************************************************************************)
(* Properties of the template selection                                    *)
(***************************************************************************)
\* C25: a call that returns from its try block names the template of its
\* intent: hot, warm and cold each their own, every other intent the cold one,
\* and never "fallback".
C25_TemplateByIntent ==
    (Returned /\ TrySucceeds(backend)) =>
        /\ message[1].template_used # "fallback"
        /\ intent = "hot" => message[1].template_used = "high_intent_followup"
        /\ intent = "warm" => message[1].template_used = "nurture_followup"
        /\ intent \notin {"hot", "warm"} => message[1].template_used = "introduction"

C25_Witness ==
    /\ Returned /\ TrySucceeds(backend)
    /\ intent = "vip" /\ message[1].template_used = "introduction"

(***************************************************************************)
(* Properties of the records process_new_lead stores                       *)
(***************************************************************************)
\* C28: processing one lead stores at most one Message record and at most one
\* message_generated interaction, also when attempts are retried.
C28_OneMessagePerLead ==
    Len(db_messages) <= 1 /\ Len(db_interactions) <= 1

PersistedTables == << db_lead, db_messages, db_interactions >>

\* C29: an attempt that commits stores its intent, confidence and reason on the
\* lead together with its Message and its message_generated interaction; an
\* attempt that fails before its commit leaves the three tables as they were;
\* so the lead carries a classification exactly when a Message and an
\* interaction are stored.
C29_AtomicPersistence ==
    [][ attempts' = attempts + 1 =>
          /\ last'.committed =>
                /\ db_lead' = [intent |-> classification'[1].intent,
                               confidence |-> classification'[1].confidence,
                               reason |-> classification'[1].reason.text]
                /\ Len(db_messages') = Len(db_messages) + 1
                /\ db_messages'[Len(db_messages')].confidence = message'[1].confidence
                /\ db_messages'[Len(db_messages')].body = message'[1].body
                /\ Len(db_interactions') = Len(db_interactions) + 1
                /\ db_interactions'[Len(db_interactions')].intent = db_lead'.intent
          /\ ~last'.committed => UNCHANGED PersistedTables
          /\ (db_lead'.intent # None) <=> (db_messages' # << >>)
          /\ Len(db_messages') = Len(db_interactions') ]_vars

C29_Witness ==
    /\ last.fault = "commit" /\ last.rolled_back /\ ~last.committed
    /\ attempts = 2 /\ db_lead = NoClassification /\ db_messages = << >>

\* scores of every sign and size in [-1, 1], in hundredths
BoundScores == {-100, -1, 0, 99, 100}

BoundCtxLists == UNION { [1..n -> { MkCtx(1, sc) : sc \in BoundScores }] : n \in 0..2 }

\* the confidence of a cold intent is at most 0.70, of an unknown one 0.60
ConfidenceBounds ==
    \A ctxs \in BoundCtxLists : \A it \in Intents :
       \A conf \in _calculate_confidence(ctxs, it) :
          /\ it = "cold" => conf <= 70
          /\ it \notin {"hot", "warm", "cold"} => conf <= 60
          /\ it = "warm" => conf <= 85

\* C30: a message the worker hands to send_message is never a fallback message
\* and is of intent hot or warm, a warm one only at confidence 0.85; a fallback
\* message has confidence 0.50; with scores in [-1, 1] the confidence of a cold
\* intent is at most 0.70 and that of an unknown intent at most 0.60.
C30_AutoSendOnlyHotOrWarm ==
    /\ ConfidenceBounds
    /\ last.send_called =>
          /\ db_messages[Len(db_messages)].prompt_template_id # "fallback"
          /\ db_interactions[Len(db_interactions)].intent \in {"hot", "warm"}
          /\ db_interactions[Len(db_interactions)].intent = "warm" =>
                db_messages[Len(db_messages)].confidence = 85
    /\ \A k \in 1..Len(db_messages) :
          /\ db_messages[k].prompt_template_id = "fallback" => db_messages[k].confidence = 50
          /\ db_interactions[k].intent = "cold" => db_messages[k].confidence <= 70
          /\ k \in { send_queue[j] : j \in 1..Len(send_queue) } =>
                /\ db_messages[k].prompt_template_id # "fallback"
                /\ db_interactions[k].intent \in {"hot", "warm"}

C30_Witness ==
    /\ send_queue = << 1 >>
    /\ db_interactions[1].intent = "warm" /\ db_messages[1].confidence = 85

(***************************************************************************)
(* Properties of searches during indexing                                  *)
(***************************************************************************)
MetadataFields == {"title", "doc_type", "source_url", "priority"}

\* C21: at every point of an index_knowledge_base call, a search returns a
\* document only if the index holds its vector and its full metadata (title,
\* doc_type, source_url, priority).
C21_NoPartialDocument ==
    Searched =>
        \A k \in 1..Len(contexts) :
           /\ contexts[k].doc_id \in DOMAIN index
           /\ contexts[k].doc_id \in DOMAIN index_meta
           /\ DOMAIN index_meta[contexts[k].doc_id] = MetadataFields

C21_Witness ==
    /\ Searched /\ run.pc = "added"
    /\ \E k \in 1..Len(contexts) :
          contexts[k].doc_id \in run.docs /\ kb[contexts[k].doc_id].embedding_id = 0

(***************************************************************************)
(* Properties of the embedding models of a collection                      *)
(***************************************************************************)
\* C22: the collection never holds vectors of two embedding models, and an
\* indexing or a search with a model other than the one of the stored vectors
\* ends in a ConfigurationError.
C22_OneEmbeddingModelPerStore ==
    /\ \A i, j \in DOMAIN store_embed : store_embed[i] = store_embed[j]
    /\ (/\ op.name \in {"add", "search"}
        /\ \E i \in DOMAIN store_embed : store_embed[i] # embed_model) =>
          raised = "ConfigurationError"

(***************************************************************************)
(* Properties of review_message and send_message                           *)
(***************************************************************************)
\* C26: over every sequence of auto-send, reviews and send_message executions
\* with their retries, the channel delivers a message at most once.
C26_DeliveredAtMostOnce ==
    channel_sends <= 1

\* C27: from the moment the status is REJECTED, no send_message execution
\* calls the channel sender for the message or stores SENT.
C27_RejectedNeverSent ==
    [][ msg_status = "rejected" =>
           /\ channel_calls' = channel_calls
           /\ msg_status' # "sent" ]_vars

====
